---- MODULE Spec2Model ----
(***************************************************************************)
(* A model of the recipe crawler of pahankov/parserbot.                    *)
(*                                                                         *)
(*   parser.py    parse_quantity, get_or_create, calculate_hash,           *)
(*                RecipeParser and the main loop       (Spec, SpecQty)     *)
(*   database.py  DatabaseManager.insert_category / insert_recipe          *)
(*                                                     (SpecDB)            *)
(*                                                                         *)
(* Texts that the code inspects character by character are sequences of    *)
(* one-character strings.  The characters outside ASCII are named:         *)
(* "HALF" is U+00BD, "QUARTER" is U+00BC, "THREEQ" is U+00BE and "GHE" is   *)
(* the Cyrillic letter of the unit "gram".  A Python float is the exact    *)
(* rational <<n, d>> in lowest terms; Python's None is the empty sequence  *)
(* where a float is expected and the empty set where a row id is expected. *)
(***************************************************************************)
EXTENDS Integers, Sequences, FiniteSets, TLC

\* ------------------------------------------------------------------------
\* Bounds of the model
\* ------------------------------------------------------------------------
MaxUrls == 2      \* longest sitemap
MaxFaults == 1    \* storage faults injected in one execution
MaxTokens == 3    \* tokens of a quantity text given to parse_quantity

\* ------------------------------------------------------------------------
\* Text helpers (Python str methods used by the code)
\* ------------------------------------------------------------------------
Digits == {"0", "1", "2", "3", "4", "5", "6", "7", "8", "9"}

DigitVal(c) ==
    CASE c = "0" -> 0 [] c = "1" -> 1 [] c = "2" -> 2 [] c = "3" -> 3
      [] c = "4" -> 4 [] c = "5" -> 5 [] c = "6" -> 6 [] c = "7" -> 7
      [] c = "8" -> 8 [] c = "9" -> 9

DigitChar(n) ==
    CASE n = 0 -> "0" [] n = 1 -> "1" [] n = 2 -> "2" [] n = 3 -> "3"
      [] n = 4 -> "4" [] n = 5 -> "5" [] n = 6 -> "6" [] n = 7 -> "7"
      [] n = 8 -> "8" [] n = 9 -> "9"

RECURSIVE Gcd(_, _)
Gcd(a, b) == IF b = 0 THEN a ELSE Gcd(b, a % b)

\* the float n/d, d > 0
Rat(n, d) == LET g == Gcd(n, d) IN <<n \div g, d \div g>>

RECURSIVE Pow10(_)
Pow10(k) == IF k = 0 THEN 1 ELSE 10 * Pow10(k - 1)

RECURSIVE DigitsVal(_)
DigitsVal(s) ==
    IF s = <<>> THEN 0
    ELSE 10 * DigitsVal(SubSeq(s, 1, Len(s) - 1)) + DigitVal(s[Len(s)])

\* str.strip(): leading and trailing blanks removed
RECURSIVE LStrip(_)
LStrip(s) == IF s # <<>> /\ s[1] = " " THEN LStrip(Tail(s)) ELSE s

RECURSIVE RStrip(_)
RStrip(s) ==
    IF s # <<>> /\ s[Len(s)] = " " THEN RStrip(SubSeq(s, 1, Len(s) - 1)) ELSE s

Strip(s) == RStrip(LStrip(s))

\* s[n:]
Drop(s, n) == IF n >= Len(s) THEN <<>> ELSE SubSeq(s, n + 1, Len(s))

\* the first position of character c in s, 0 when absent
RECURSIVE IndexOf(_, _, _)
IndexOf(s, c, k) ==
    IF k > Len(s) THEN 0 ELSE IF s[k] = c THEN k ELSE IndexOf(s, c, k + 1)

\* str.split(c): the pieces between the occurrences of c
RECURSIVE SplitOn(_, _)
SplitOn(s, c) ==
    LET k == IndexOf(s, c, 1) IN
    IF k = 0 THEN <<s>>
    ELSE <<SubSeq(s, 1, k - 1)>> \o SplitOn(Drop(s, k), c)

\* str.split(): split on blanks, empty pieces dropped
SplitBlank(s) == SelectSeq(SplitOn(s, " "), LAMBDA p : p # <<>>)

\* ' '.join(parts)
RECURSIVE JoinBlank(_)
JoinBlank(parts) ==
    IF parts = <<>> THEN <<>>
    ELSE IF Len(parts) = 1 THEN parts[1]
    ELSE parts[1] \o <<" ">> \o JoinBlank(Tail(parts))

\* ------------------------------------------------------------------------
\* float(str) and str(float) on the characters the model uses
\* ------------------------------------------------------------------------
\* float(s) accepts digits with at most one '.', and at least one digit
FloatOk(s) ==
    /\ \A k \in 1..Len(s) : s[k] \in Digits \cup {"."}
    /\ Cardinality({k \in 1..Len(s) : s[k] = "."}) <= 1
    /\ \E k \in 1..Len(s) : s[k] \in Digits

FloatOf(s) ==
    LET dot  == IndexOf(s, ".", 1)
        ip   == IF dot = 0 THEN s ELSE SubSeq(s, 1, dot - 1)
        fp   == IF dot = 0 THEN <<>> ELSE Drop(s, dot)
    IN Rat(DigitsVal(ip \o fp), Pow10(Len(fp)))

RECURSIVE NatStr(_)
NatStr(n) ==
    IF n < 10 THEN <<DigitChar(n)>>
    ELSE NatStr(n \div 10) \o <<DigitChar(n % 10)>>

\* the decimal digits of r/d after the point (long division); fuel bounds
\* the expansion of a quotient that does not terminate
RECURSIVE FracStr(_, _, _)
FracStr(r, d, fuel) ==
    IF r = 0 \/ fuel = 0 THEN <<>>
    ELSE <<DigitChar((10 * r) \div d)>> \o FracStr((10 * r) % d, d, fuel - 1)

\* str(x) of a float x >= 0: "2.0", "0.5", "0.25"
FloatStr(x) ==
    LET n == x[1]
        d == x[2]
        f == FracStr(n % d, d, d)
    IN NatStr(n \div d) \o <<".">> \o (IF f = <<>> THEN <<"0">> ELSE f)

\* ------------------------------------------------------------------------
\* parse_quantity (parser.py 115-131)
\* ------------------------------------------------------------------------
\* line 118: the three vulgar fraction characters become decimals
RECURSIVE ReplaceVulgar(_)
ReplaceVulgar(s) ==
    IF s = <<>> THEN <<>>
    ELSE (CASE s[1] = "HALF"    -> <<"0", ".", "5">>
            [] s[1] = "QUARTER" -> <<"0", ".", "2", "5">>
            [] s[1] = "THREEQ"  -> <<"0", ".", "7", "5">>
            [] OTHER            -> <<s[1]>>) \o ReplaceVulgar(Tail(s))

\* lines 121-123 for one part: [ok, part]; ok is FALSE where the code raises
\* (unpacking other than two pieces, float() of a piece, division by zero)
ConvertPart(part) ==
    IF IndexOf(part, "/", 1) = 0 THEN [ok |-> TRUE, part |-> part]
    ELSE LET pieces == SplitOn(part, "/") IN
         IF Len(pieces) # 2 THEN [ok |-> FALSE, part |-> part]
         ELSE IF ~FloatOk(pieces[1]) \/ ~FloatOk(pieces[2])
              THEN [ok |-> FALSE, part |-> part]
         ELSE LET num == FloatOf(pieces[1])
                  den == FloatOf(pieces[2])
              IN IF den[1] = 0 THEN [ok |-> FALSE, part |-> part]
                 ELSE [ok |-> TRUE,
                       part |-> FloatStr(Rat(num[1] * den[2], num[2] * den[1]))]

\* line 125: every digit, '.' and ',' of the cleaned text, wherever it stands
QuantityChars(cleaned) ==
    SelectSeq(cleaned, LAMBDA c : c \in Digits \cup {".", ","})

\* line 126: ',' becomes '.'
CommaToDot(s) == [k \in 1..Len(s) |-> IF s[k] = "," THEN "." ELSE s[k]]

\* the function: [quantity, unit]; quantity is <<>> for None
parse_quantity(text0) ==
    LET text    == ReplaceVulgar(text0)
        parts   == SplitBlank(text)
        conv    == [k \in 1..Len(parts) |-> ConvertPart(parts[k])]
        raised  == \E k \in 1..Len(parts) : ~conv[k].ok
        cleaned == JoinBlank([k \in 1..Len(parts) |-> conv[k].part])
        quantity == Strip(CommaToDot(QuantityChars(cleaned)))
        unit    == Strip(Drop(cleaned, Len(quantity)))
    IN IF raised \/ ~FloatOk(quantity)
       THEN [quantity |-> <<>>, unit |-> text]
       ELSE [quantity |-> FloatOf(quantity), unit |-> unit]

\* ------------------------------------------------------------------------
\* State
\* ------------------------------------------------------------------------
VARIABLES
    \* the remote site (environment of parser.py)
    sitemap,    \* the <loc> entries of sitemap.xml, in order
    site,       \* the page each recipe URL serves
    changed,    \* whether the site changed a page after the first run
    \* main() of parser.py
    run,        \* "first" or "second" invocation of main()
    pc,         \* position in main(): "start", "loop", "done"
    urls,       \* the list built at line 303
    i,          \* index of the loop at line 310
    committed,  \* the tables of recipes.db
    clock,      \* datetime.now()
    faults,     \* storage faults injected so far
    last,       \* the latest iteration: what it logged last, what was raised
    seen,       \* the outcomes logged so far in this run
    trouble,    \* the worst so far: "none", "raised" (an exception of the
                \* extraction or the storage), "nofetch" (a failed request)
    runStart,   \* the committed tables when the current run began
    \* parse_quantity applied to one text
    qin, qout,
    \* DatabaseManager of database.py
    dm,         \* tables and last_insert_rowid as the connection sees them
    dmCommitted,\* its committed tables
    dmCall      \* the last call and what it returned

crawlVars == <<sitemap, site, changed, run, pc, urls, i, committed, clock,
               faults, last, seen, trouble, runStart>>
qtyVars == <<qin, qout>>
dmVars == <<dm, dmCommitted, dmCall>>
vars == <<crawlVars, qtyVars, dmVars>>

\* ------------------------------------------------------------------------
\* The remote site: pages as the extraction code sees them
\* ------------------------------------------------------------------------
URLS == {"/recipe/1", "/recipe/2"}

Axes == <<"category", "cuisine", "dish_type", "purpose">>

LiSalt == <<"s", "a", "l", "t", " ", "-", " ", "1", " ", "t">>
LiBeet == <<"b", " ", "-", " ", "HALF", " ", "c">>
LiDill == <<"d", "i", "l", "l">>

\* raw: the response text, whose sha256 is taken
\* h1/title: <h1 itemprop="name">; aboutOk: every <tr> of div.recipe_about has
\* a <th> and a <td>; about: the characteristics; ingr: the <li> of div.ingr
PageA ==
    [raw |-> "A", h1 |-> TRUE, title |-> "Borsch", aboutOk |-> TRUE,
     about |-> [category |-> "soup", cuisine |-> "russian"],
     ingr |-> <<LiSalt, LiBeet>>]
\* PageA with other markup around the same fields
PageAds == [PageA EXCEPT !.raw = "A+ads"]
\* another ingredient list and other characteristics
PageB ==
    [raw |-> "B", h1 |-> TRUE, title |-> "Borsch", aboutOk |-> TRUE,
     about |-> [category |-> "soup"],
     ingr |-> <<LiSalt, LiSalt, LiDill>>]
\* no title element
PageNoTitle ==
    [raw |-> "N", h1 |-> FALSE, title |-> "", aboutOk |-> TRUE,
     about |-> [cuisine |-> "russian"],
     ingr |-> <<LiDill>>]
\* a characteristics row without <th>: row.th.text raises at line 191
PageBadRow ==
    [raw |-> "X", h1 |-> TRUE, title |-> "Shchi", aboutOk |-> FALSE,
     about |-> [category |-> "soup"],
     ingr |-> <<LiSalt>>]

Pages == {PageA, PageAds, PageB, PageNoTitle, PageBadRow}

\* the pages the site serves at first; PageAds and PageB are later revisions
FirstPages == {PageA, PageNoTitle, PageBadRow}

\* what a page may become: other markup, other content, a repaired or a
\* broken page
Revisions(page) ==
    CASE page = PageA       -> {PageAds, PageB}
      [] page = PageNoTitle -> {PageB}
      [] page = PageBadRow  -> {PageA}
      [] OTHER              -> {}

\* the fields the extraction reads from a page
ExtractedFields(page) == [page EXCEPT !.raw = ""]

SetMax(S) == CHOOSE m \in S : \A n \in S : n <= m

\* All sequences over S of length at most n
RECURSIVE SeqsUpTo(_, _)
SeqsUpTo(S, n) ==
    IF n = 0 THEN {<<>>}
    ELSE LET shorter == SeqsUpTo(S, n - 1) IN
         shorter \cup {Append(q, x) : q \in shorter, x \in S}

\* ------------------------------------------------------------------------
\* The SQLite connection of parser.py
\* ------------------------------------------------------------------------
EmptyDb ==
    [recipe |-> {}, ingredient |-> {}, category |-> {}, cuisine |-> {},
     dish_type |-> {}, purpose |-> {}]

\* INTEGER PRIMARY KEY without AUTOINCREMENT: one more than the largest rowid
NextId(rows) == IF rows = {} THEN 1 ELSE SetMax({r.id : r \in rows}) + 1

NoExc == "none"

\* a cursor: the tables it sees, the number of statements that will still
\* succeed before the injected fault, and the exception raised so far
Cursor(tables, left) == [db |-> tables, left |-> left, exc |-> NoExc]

\* cursor.execute: the statement turns the tables into newdb, or fails and
\* leaves them as they are (statement-level atomicity)
Execute(cx, newdb) ==
    IF cx.exc # NoExc THEN cx
    ELSE IF cx.left = 0 THEN [cx EXCEPT !.exc = "storage"]
    ELSE [db |-> newdb, left |-> cx.left - 1, exc |-> NoExc]

\* get_or_create (parser.py 100-110): [cx, id]
get_or_create(table, name, cx) ==
    LET sel == Execute(cx, cx.db) IN
    IF sel.exc # NoExc THEN [cx |-> sel, id |-> {}]
    ELSE LET result == {r \in sel.db[table] : r.name = name} IN
         IF result # {} THEN [cx |-> sel, id |-> {r.id : r \in result}]
         ELSE LET rowid == NextId(sel.db[table])
                  ins == Execute(sel, [sel.db EXCEPT ![table] =
                                         @ \cup {[id |-> rowid, name |-> name]}])
              IN [cx |-> ins, id |-> IF ins.exc = NoExc THEN {rowid} ELSE {}]

\* calculate_hash (parser.py 112-113): sha256 as an injective function
calculate_hash(content) == <<"sha256", content>>

\* ------------------------------------------------------------------------
\* RecipeParser (parser.py 136-288)
\* ------------------------------------------------------------------------
\* the position of the first " - " in text at or after k, 0 when absent
RECURSIVE IndexOfDash(_, _)
IndexOfDash(text, k) ==
    IF k + 2 > Len(text) THEN 0
    ELSE IF text[k] = " " /\ text[k + 1] = "-" /\ text[k + 2] = " " THEN k
    ELSE IndexOfDash(text, k + 1)

\* lines 217-228 for one <li>
ExtractIngredient(li) ==
    LET text == Strip(li)
        k    == IndexOfDash(text, 1)
        name_part     == IF k = 0 THEN text ELSE SubSeq(text, 1, k - 1)
        quantity_part == IF k = 0 THEN <<>> ELSE Drop(text, k + 2)
        q    == parse_quantity(quantity_part)
    IN [name |-> Strip(name_part), quantity |-> q.quantity, unit |-> q.unit]

\* _extract_ingredients (212-229)
extract_ingredients(page) ==
    [k \in 1..Len(page.ingr) |-> ExtractIngredient(page.ingr[k])]

\* lines 203-208: the mapping loop from axis k on
RECURSIVE ExtractAxes(_, _, _, _)
ExtractAxes(k, about, cx, data) ==
    IF k > Len(Axes) \/ cx.exc # NoExc THEN [cx |-> cx, data |-> data]
    ELSE LET field == Axes[k] IN
         IF field \in DOMAIN about
         THEN LET g == get_or_create(field, about[field], cx) IN
              ExtractAxes(k + 1, about, g.cx, [data EXCEPT ![field] = g.id])
         ELSE ExtractAxes(k + 1, about, cx, [data EXCEPT ![field] = {}])

\* _extract_recipe_data (175-210): [cx, data]
extract_recipe_data(page, url, content_hash, cx, now) ==
    LET data == [url |-> url, content_hash |-> content_hash,
                 last_updated |-> now,
                 title |-> IF page.h1 THEN page.title ELSE "",
                 category |-> {}, cuisine |-> {}, dish_type |-> {},
                 purpose |-> {}]
    IN IF ~page.aboutOk THEN [cx |-> [cx EXCEPT !.exc = "extract"], data |-> data]
       ELSE ExtractAxes(1, page.about, cx, data)

RecipeRow(id, url, data) ==
    [id |-> id, title |-> data.title, url |-> url,
     category_id |-> data.category, cuisine_id |-> data.cuisine,
     dish_type_id |-> data.dish_type, purpose_id |-> data.purpose,
     content_hash |-> data.content_hash, last_updated |-> data.last_updated]

\* an UPDATE that leaves content_hash out of its SET list
UpdateRecipeKeepsHash(tables, recipe_id, data) ==
    [tables EXCEPT !.recipe =
        {IF r.id = recipe_id
         THEN [RecipeRow(r.id, r.url, data) EXCEPT !.content_hash = r.content_hash]
         ELSE r : r \in @}]

\* lines 236-255: UPDATE recipe SET ... WHERE id = recipe_id
UpdateRecipe(tables, recipe_id, data) ==
    [tables EXCEPT !.recipe =
        {IF r.id = recipe_id THEN RecipeRow(r.id, r.url, data) ELSE r : r \in @}]

\* an INSERT that stores the hash of the empty text
InsertRecipeNoHash(tables, recipe_id, data) ==
    [tables EXCEPT !.recipe =
        @ \cup {[RecipeRow(recipe_id, data.url, data)
                    EXCEPT !.content_hash = calculate_hash("")]}]

\* lines 258-272: INSERT INTO recipe
InsertRecipe(tables, recipe_id, data) ==
    [tables EXCEPT !.recipe = @ \cup {RecipeRow(recipe_id, data.url, data)}]

\* a save that keeps the ingredient rows of the earlier version
DeleteIngredientsNone(tables, recipe_id) == tables

\* line 276: DELETE FROM ingredient WHERE recipe_id = ?
DeleteIngredients(tables, recipe_id) ==
    [tables EXCEPT !.ingredient = {g \in @ : g.recipe_id # recipe_id}]

\* lines 277-282: the INSERTs of the loop from ingredient k on
RECURSIVE InsertIngredients(_, _, _, _)
InsertIngredients(recipe_id, ingredients, k, cx) ==
    IF k > Len(ingredients) \/ cx.exc # NoExc THEN cx
    ELSE LET ingr == ingredients[k]
             row  == [id |-> NextId(cx.db.ingredient), recipe_id |-> recipe_id,
                      name |-> ingr.name, quantity |-> ingr.quantity,
                      unit |-> ingr.unit]
         IN InsertIngredients(recipe_id, ingredients, k + 1,
                Execute(cx, [cx.db EXCEPT !.ingredient = @ \cup {row}]))

\* _save_recipe (231-288): the cursor afterwards; existing is <<>> or <<id, hash>>
save_recipe(recipe_data, ingredients, existing, cx) ==
    LET recipe_id == IF existing # <<>> THEN existing[1] ELSE NextId(cx.db.recipe)
        written == IF existing # <<>>
                   THEN Execute(cx, UpdateRecipe(cx.db, recipe_id, recipe_data))
                   ELSE Execute(cx, InsertRecipe(cx.db, recipe_id, recipe_data))
        deleted == Execute(written, DeleteIngredients(written.db, recipe_id))
    IN InsertIngredients(recipe_id, ingredients, 1, deleted)

\* lines 151-155: SELECT id, content_hash FROM recipe WHERE url = ?
FetchExisting(tables, url) ==
    IF \E r \in tables.recipe : r.url = url
    THEN LET r == CHOOSE r \in tables.recipe : r.url = url
         IN <<r.id, r.content_hash>>
    ELSE <<>>

\* parse_recipe_page (140-173): [cx, msg, existing]; response is <<>> when
\* requests.get or raise_for_status raises, else <<page>>.  msg is what the
\* method logs last: "error" (173), "nochange" (159), "added"/"updated" (284)
parse_recipe_page(url, response, cx, now) ==
    IF response = <<>>
    THEN [cx |-> [cx EXCEPT !.exc = "fetch"], msg |-> "error", existing |-> <<>>]
    ELSE
    LET page == response[1]
        content_hash == calculate_hash(page.raw)
        sel == Execute(cx, cx.db)
        existing == FetchExisting(sel.db, url)
    IN IF sel.exc # NoExc
       THEN [cx |-> sel, msg |-> "error", existing |-> <<>>]
       ELSE IF existing # <<>> /\ existing[2] = content_hash
       THEN [cx |-> sel, msg |-> "nochange", existing |-> existing]
       ELSE LET ex == extract_recipe_data(page, url, content_hash, sel, now)
                ingredients == extract_ingredients(page)
                \* an exception of the extraction passes through save_recipe
                saved == save_recipe(ex.data, ingredients, existing, ex.cx)
            IN [cx |-> saved,
                msg |-> IF saved.exc # NoExc THEN "error"
                        ELSE IF existing # <<>> THEN "updated" ELSE "added",
                existing |-> existing]

\* ------------------------------------------------------------------------
\* main (parser.py 293-320), run twice
\* ------------------------------------------------------------------------
MaxLi == SetMax({Len(p.ingr) : p \in Pages})

\* no call of parse_recipe_page executes more statements than this: the
\* SELECT, a SELECT and an INSERT per axis, the recipe write, the DELETE and
\* the ingredient INSERTs
MaxStmts == 1 + 2 * Len(Axes) + 2 + MaxLi

NoCall == [msg |-> "", exc |-> NoExc]


CrawlInit ==
    /\ sitemap \in {<<"/about">> \o q : q \in SeqsUpTo(URLS, MaxUrls)}
    /\ site \in [URLS -> FirstPages]
    /\ changed = FALSE
    /\ run = "first"
    /\ pc = "start"
    /\ urls = <<>>
    /\ i = 1
    /\ committed = EmptyDb
    /\ clock = 1
    /\ faults = 0
    /\ last = NoCall
    /\ seen = {}
    /\ trouble = "none"
    /\ runStart = EmptyDb

\* the variables of parser.py while another program is studied
CrawlIdle ==
    /\ sitemap = <<>>
    /\ site = [u \in URLS |-> PageA]
    /\ changed = FALSE
    /\ run = "first"
    /\ pc = "idle"
    /\ urls = <<>>
    /\ i = 1
    /\ committed = EmptyDb
    /\ clock = 1
    /\ faults = 0
    /\ last = NoCall
    /\ seen = {}
    /\ trouble = "none"
    /\ runStart = EmptyDb

\* line 303: the <loc> texts that contain 'recipe'
RecipeUrls(locs) == SelectSeq(locs, LAMBDA loc : loc \in URLS)

\* lines 294-304: connect, fetch the sitemap, build urls
FetchSitemap ==
    /\ pc = "start"
    /\ urls' = RecipeUrls(sitemap)
    /\ i' = 1
    /\ pc' = IF urls' = <<>> THEN "done" ELSE "loop"
    /\ runStart' = committed
    /\ UNCHANGED <<sitemap, site, changed, run, committed, clock, faults, last,
                   seen, trouble>>
    /\ UNCHANGED <<qtyVars, dmVars>>

\* line 301 raises: the finally clause closes the connection, main ends
FetchSitemapFails ==
    /\ pc = "start"
    /\ urls' = <<>>
    /\ i' = 1
    /\ pc' = "done"
    /\ runStart' = committed
    /\ trouble' = "nofetch"
    /\ UNCHANGED <<sitemap, site, changed, run, committed, clock, faults, last,
                   seen>>
    /\ UNCHANGED <<qtyVars, dmVars>>

\* what one iteration logs last and the exception it handled: those of
\* parse_recipe_page, or the critical error of line 315
Outcome(r, commits) ==
    IF r.cx.exc = NoExc /\ ~commits
    THEN [msg |-> "error", exc |-> "commit"]
    ELSE [msg |-> r.msg, exc |-> r.cx.exc]

Worst(before, exc) ==
    IF before = "nofetch" \/ exc = "fetch" THEN "nofetch"
    ELSE IF before = "raised" \/ exc # NoExc THEN "raised"
    ELSE "none"

\* a loop that ends at the first url that raised
LoopStopsOnError(raised) ==
    /\ i' = i + 1
    /\ pc' = IF i = Len(urls) \/ raised THEN "done" ELSE "loop"

\* line 310: whatever the iteration raised, the loop goes on with the next
\* url, and main ends after the last one (318-320)
LoopGoesOn(raised) ==
    /\ i' = i + 1
    /\ pc' = IF i = Len(urls) THEN "done" ELSE "loop"

\* lines 310-316, one iteration of the loop: parse_recipe_page(url), which
\* raises nothing (172-173), then conn.commit(); when the commit raises, the
\* except clause rolls back.  left < MaxStmts injects a storage fault at
\* statement left + 1; with abortTxn the engine also rolls the open
\* transaction back (disk full, I/O error), otherwise only the failing
\* statement has no effect.  Between iterations the connection holds no
\* uncommitted change, so the committed tables are the whole database state.
Iteration(commits) ==
    /\ pc = "loop"
    /\ ~commits => faults < MaxFaults
    /\ \E fetched \in BOOLEAN,
          left \in IF commits /\ faults < MaxFaults
                   THEN 0..MaxStmts ELSE {MaxStmts} :
        \E r \in {parse_recipe_page(urls[i],
                        IF fetched THEN <<site[urls[i]]>> ELSE <<>>,
                        Cursor(committed, left), clock)} :
         \E abortTxn \in IF r.cx.exc = "storage" THEN BOOLEAN ELSE {FALSE} :
           /\ left < MaxStmts => r.cx.exc = "storage"
           /\ committed' = IF commits /\ ~abortTxn THEN r.cx.db ELSE committed
           /\ faults' = IF r.cx.exc = "storage" \/ ~commits
                        THEN faults + 1 ELSE faults
           /\ last' = Outcome(r, commits)
           /\ seen' = seen \cup {Outcome(r, commits).msg}
           /\ trouble' = Worst(trouble, Outcome(r, commits).exc)
           /\ LoopGoesOn(Outcome(r, commits).exc # NoExc)
    /\ clock' = clock + 1
    /\ UNCHANGED <<sitemap, site, changed, run, urls, runStart>>
    /\ UNCHANGED <<qtyVars, dmVars>>

\* lines 312-313
ProcessUrl == Iteration(TRUE)

\* lines 312-316 with conn.commit() raising
ProcessUrlRollback == Iteration(FALSE)

\* between the runs the site may serve another page for one url
RemoteChange ==
    /\ pc = "done"
    /\ run = "first"
    /\ ~changed
    /\ \E u \in URLS :
        \E p \in Revisions(site[u]) : site' = [site EXCEPT ![u] = p]
    /\ changed' = TRUE
    /\ UNCHANGED <<sitemap, run, pc, urls, i, committed, clock, faults, last,
                   seen, trouble, runStart>>
    /\ UNCHANGED <<qtyVars, dmVars>>

\* main() is started again
MainAgain ==
    /\ pc = "done"
    /\ run = "first"
    /\ run' = "second"
    /\ pc' = "start"
    /\ seen' = {}
    /\ UNCHANGED <<sitemap, site, changed, urls, i, committed, clock, faults,
                   last, trouble, runStart>>
    /\ UNCHANGED <<qtyVars, dmVars>>

Next ==
    \/ FetchSitemap
    \/ FetchSitemapFails
    \/ ProcessUrl
    \/ ProcessUrlRollback
    \/ RemoteChange
    \/ MainAgain

\* the variables of parse_quantity's and of DatabaseManager's study, unused
QtyIdle == qin = <<>> /\ qout = <<>>

DmIdle == dm = <<>> /\ dmCommitted = <<>> /\ dmCall = <<>>

Init == CrawlInit /\ QtyIdle /\ DmIdle

Spec == Init /\ [][Next]_vars

\* ------------------------------------------------------------------------
\* parse_quantity applied to one text (parser.py 115-131)
\* ------------------------------------------------------------------------
QtyTokens ==
    {<<"2">>, <<"3", "0", "0">>, <<"1", "/", "2">>, <<"1", "/", "0">>,
     <<"1", ",", "5">>, <<"HALF">>, <<"c", "u", "p", "s">>, <<"t", "s", "p">>,
     <<"t", "o">>, <<"t", "a", "s", "t", "e">>, <<"GHE">>}

\* the texts: at most MaxTokens tokens, joined by blanks
QtyInputs == {JoinBlank(q) : q \in SeqsUpTo(QtyTokens, MaxTokens)}

QtyInit ==
    /\ qin \in QtyInputs
    /\ qout = <<>>
    /\ CrawlIdle
    /\ DmIdle

\* quantity, unit = parse_quantity(quantity_part)
ParseQuantity ==
    /\ qout = <<>>
    /\ qout' = <<parse_quantity(qin)>>
    /\ UNCHANGED <<qin, crawlVars, dmVars>>

QtyNext == ParseQuantity

SpecQty == QtyInit /\ [][QtyNext]_vars

\* ------------------------------------------------------------------------
\* DatabaseManager (database.py 10-144)
\* ------------------------------------------------------------------------
CategoryNames == {"Soups", "Salads"}
CategoryUrls == {"/category/1", "/category/2", "/category/3"}

\* the records given to insert_recipe: well-formed, ingredients not empty
RecipeRecords ==
    {[title |-> "Borsch", url |-> u, image_url |-> "", category_id |-> {},
      nutrition |-> [calories |-> "50"],
      ingredients |-> g] :
        u \in URLS,
        g \in {<<[name |-> "salt", quantity |-> "1", unit |-> "t"]>>,
               <<[name |-> "salt", quantity |-> "1", unit |-> "t"],
                 [name |-> "dill", quantity |-> "", unit |-> ""]>>}}

EmptyTables ==
    [categories |-> {}, recipes |-> {}, ingredients |-> {},
     recipe_ingredients |-> {}]

\* __init__ (11-14): a new connection and cursor on the file; lastrowid is
\* sqlite3_last_insert_rowid() of the connection, 0 until a row is inserted
Connect(tables) == [t |-> tables, lastrowid |-> 0]

\* lines 69-73: INSERT OR IGNORE INTO categories; a row with the url makes
\* the statement a no-op, which leaves lastrowid as it was
InsertOrIgnoreCategory(conn, name, parent_id, url, recipe_count, path) ==
    IF \E c \in conn.t.categories : c.url = url THEN conn
    ELSE LET rowid == NextId(conn.t.categories) IN
         [t |-> [conn.t EXCEPT !.categories = @ \cup
                    {[id |-> rowid, name |-> name, parent_id |-> parent_id,
                      url |-> url, recipe_count |-> recipe_count,
                      path |-> path]}],
          lastrowid |-> rowid]

\* insert_category (67-78): [conn, committed, ret]; ret is <<>> for None.
\* fault is "none", or the statement that raises: "execute" or "commit"
insert_category(name, url, parent_id, recipe_count, path, conn, disk, fault) ==
    LET after == IF fault = "execute" THEN conn
                 ELSE InsertOrIgnoreCategory(conn, name, parent_id, url,
                                             recipe_count, path)
    IN [conn |-> after,
        committed |-> IF fault = "none" THEN after.t ELSE disk,
        ret |-> IF fault = "none" THEN <<after.lastrowid>> ELSE <<>>]

\* lines 87-91: .hexdigest() is called on the concatenated str, not on the
\* sha256 object: a str has no such attribute, and AttributeError is raised
StrHexdigest(text) == [raised |-> TRUE, value |-> ""]

\* lines 112-116: INSERT OR IGNORE INTO ingredients, for every ingredient
RECURSIVE InsertOrIgnoreIngredients(_, _, _)
InsertOrIgnoreIngredients(conn, ingredients, k) ==
    IF k > Len(ingredients) THEN conn
    ELSE LET ingredient == ingredients[k]
             rowid == NextId(conn.t.ingredients)
         IN InsertOrIgnoreIngredients(
                IF \E g \in conn.t.ingredients : g.name = ingredient.name
                THEN conn
                ELSE [t |-> [conn.t EXCEPT !.ingredients = @ \cup
                                {[id |-> rowid, name |-> ingredient.name,
                                  url |-> ""]}],
                      lastrowid |-> rowid],
                ingredients, k + 1)

\* lines 93-109: INSERT OR REPLACE INTO recipes: a row with the url is
\* deleted, the new row gets a new rowid
InsertOrReplaceRecipe(conn, recipe_data, content_hash) ==
    LET kept  == {r \in conn.t.recipes : r.url # recipe_data.url}
        rowid == NextId(conn.t.recipes)
    IN [t |-> [conn.t EXCEPT !.recipes = kept \cup
                  {[id |-> rowid, title |-> recipe_data.title,
                    url |-> recipe_data.url, image_url |-> recipe_data.image_url,
                    category_id |-> recipe_data.category_id,
                    calories |-> recipe_data.nutrition.calories,
                    content_hash |-> content_hash]}],
        lastrowid |-> rowid]

\* lines 118-133, after the loop: the link of the last ingredient only
LinkLastIngredient(conn, recipe_id, ingredient) ==
    LET ingredient_id == (CHOOSE g \in conn.t.ingredients :
                              g.name = ingredient.name).id
        kept == {l \in conn.t.recipe_ingredients :
                    ~(l.recipe_id = recipe_id /\ l.ingredient_id = ingredient_id)}
    IN [conn EXCEPT !.t.recipe_ingredients = kept \cup
            {[recipe_id |-> recipe_id, ingredient_id |-> ingredient_id,
              quantity |-> ingredient.quantity, unit |-> ingredient.unit]}]

\* insert_recipe (85-140): [conn, committed, ret]
insert_recipe(recipe_data, conn, disk) ==
    LET content_hash == StrHexdigest(<<recipe_data.title, recipe_data.url,
                                       recipe_data.ingredients>>)
    IN IF content_hash.raised
       \* lines 137-140: rollback, return None
       THEN [conn |-> [conn EXCEPT !.t = disk], committed |-> disk, ret |-> <<>>]
       ELSE LET inserted == InsertOrReplaceRecipe(conn, recipe_data,
                                                  content_hash.value)
                recipe_id == inserted.lastrowid
                withIngr == InsertOrIgnoreIngredients(inserted,
                                recipe_data.ingredients, 1)
                linked == LinkLastIngredient(withIngr, recipe_id,
                              recipe_data.ingredients[Len(recipe_data.ingredients)])
            IN [conn |-> linked, committed |-> linked.t, ret |-> <<recipe_id>>]

DmInit ==
    /\ dm = Connect(EmptyTables)
    /\ dmCommitted = EmptyTables
    /\ dmCall = [op |-> "init", url |-> "", fault |-> "none", ret |-> <<>>]
    /\ CrawlIdle
    /\ QtyIdle

\* db.insert_category(name, url), the other parameters at their defaults
InsertCategory ==
    /\ \E name \in CategoryNames, url \in CategoryUrls,
          fault \in {"none", "execute", "commit"} :
        \E r \in {insert_category(name, url, {}, 0, "", dm, dmCommitted, fault)} :
           /\ dm' = r.conn
           /\ dmCommitted' = r.committed
           /\ dmCall' = [op |-> "insert_category", url |-> url, fault |-> fault,
                         ret |-> r.ret]
    /\ UNCHANGED <<crawlVars, qtyVars>>

\* db.insert_recipe(recipe_data) on a healthy database
InsertRecipeCall ==
    /\ \E recipe_data \in RecipeRecords :
        \E r \in {insert_recipe(recipe_data, dm, dmCommitted)} :
           /\ dm' = r.conn
           /\ dmCommitted' = r.committed
           /\ dmCall' = [op |-> "insert_recipe", url |-> recipe_data.url,
                         fault |-> "none", ret |-> r.ret]
    /\ UNCHANGED <<crawlVars, qtyVars>>

\* close (142-144), then a new DatabaseManager on the same file
Reopen ==
    /\ dm' = Connect(dmCommitted)
    /\ dmCall' = [op |-> "init", url |-> "", fault |-> "none", ret |-> <<>>]
    /\ UNCHANGED <<dmCommitted, crawlVars, qtyVars>>

DmNext ==
    \/ InsertCategory
    \/ InsertRecipeCall
    \/ Reopen

SpecDB == DmInit /\ [][DmNext]_vars

\* ------------------------------------------------------------------------
\* Properties of the crawl (Spec)
\* ------------------------------------------------------------------------
\* a step that is one iteration of the loop of main, for urls[i]
IterStep == pc = "loop" /\ i' = i + 1

IngredientRows(tables, recipe_id) ==
    {g \in tables.ingredient : g.recipe_id = recipe_id}

IngredientFields(g) ==
    [name |-> g.name, quantity |-> g.quantity, unit |-> g.unit]

\* the rows are the list, as multisets of (name, quantity, unit)
SameIngredients(rows, list) ==
    /\ Cardinality(rows) = Len(list)
    /\ \A k \in 1..Len(list) :
          Cardinality({g \in rows : IngredientFields(g) = list[k]})
              = Cardinality({j \in 1..Len(list) : list[j] = list[k]})

\* the page whose text has the hash (sha256 taken as injective)
PageOfHash(h) == CHOOSE p \in Pages : calculate_hash(p.raw) = h

\* outcome (a): a recipe row and its ingredient rows are inserted
InsertedOutcome(before, after, url, page) ==
    /\ \E r \in after.recipe :
          /\ r.url = url
          /\ r.content_hash = calculate_hash(page.raw)
          /\ after.recipe = before.recipe \cup {r}
          /\ SameIngredients(IngredientRows(after, r.id), extract_ingredients(page))
    /\ Cardinality(after.recipe) = Cardinality(before.recipe) + 1

\* outcome (b): no write of any kind
UnchangedOutcome(before, after) == after = before

\* outcome (c): the same row gets its fields and hash updated, its
\* ingredient rows are deleted and inserted again
UpdatedOutcome(before, after, url, page, existing, now) ==
    /\ \E r \in after.recipe :
          /\ r.id = existing[1]
          /\ r.url = url
          /\ r.content_hash = calculate_hash(page.raw)
          /\ r.title = (IF page.h1 THEN page.title ELSE "")
          /\ r.last_updated = now
          /\ {q \in after.recipe : q.id # r.id} = {q \in before.recipe : q.id # r.id}
          /\ SameIngredients(IngredientRows(after, r.id), extract_ingredients(page))
    /\ Cardinality(after.recipe) = Cardinality(before.recipe)

\* the outcome that the stored row for the url decides
ThreeWayOutcome ==
    LET url == urls[i]
        page == site[url]
        existing == FetchExisting(committed, url)
    IN IF existing = <<>>
       THEN last'.msg = "added" /\ InsertedOutcome(committed, committed', url, page)
       ELSE IF existing[2] = calculate_hash(page.raw)
       THEN last'.msg = "nochange" /\ UnchangedOutcome(committed, committed')
       ELSE /\ last'.msg = "updated"
            /\ UpdatedOutcome(committed, committed', url, page, existing, clock)

SiteAnswered == trouble # "nofetch"

\* the second run is over and the site served the same pages in both runs
SecondRunOfSameSite == run = "second" /\ pc = "done" /\ ~changed /\ SiteAnswered

C3_HashOfFields ==
    [][IterStep /\ trouble' = "none" /\ FetchExisting(committed, urls[i]) # <<>>
         => LET stored == PageOfHash(FetchExisting(committed, urls[i])[2])
            IN (last'.msg = "nochange")
                   <=> (ExtractedFields(site[urls[i]]) = ExtractedFields(stored))]_vars

\* C4: when a database statement fails while an item is saved, none of the
\* item's writes is committed: the committed tables are those before the item.
C4_RolledBack == [][IterStep /\ last'.exc = "storage" => committed' = committed]_vars

\* C5: a page without a title element is an extraction failure: the URL is
\* skipped and nothing is written for it.
C5_TitleRequired ==
    [][IterStep /\ last'.exc \notin {"fetch", "storage", "commit"} /\ ~site[urls[i]].h1
         => /\ last'.msg = "error"
            /\ committed' = committed
            /\ \A r \in committed'.recipe : r.title # ""]_vars


\* the recipe and ingredient rows stored for the urls other than url
RowsOfOthers(tables, url) ==
    LET others == {r \in tables.recipe : r.url # url}
    IN [recipe |-> others,
        ingredient |-> {g \in tables.ingredient :
                           \E r \in others : r.id = g.recipe_id}]

\* the loop is at a url of the list, and main ends only behind the last one
LoopInList ==
    /\ pc = "loop" => i \in 1..Len(urls)
    /\ pc = "done" => i = Len(urls) + 1

\* C6: whatever subset of the sitemap's recipe URLs fails (fetch, extraction
\* or storage error), the loop of main goes through every URL of the list in
\* list order and commits the result of each URL that did not fail; a failure
\* never ends the loop and never undoes what was committed for another URL.
C6_LoopSurvives ==
    /\ [](LoopInList)
    /\ [][IterStep =>
            /\ urls' = urls
            /\ pc' = (IF i = Len(urls) THEN "done" ELSE "loop")
            /\ RowsOfOthers(committed', urls[i]) = RowsOfOthers(committed, urls[i])
            /\ last'.exc = NoExc =>
                  \E r \in committed'.recipe :
                      /\ r.url = urls[i]
                      /\ r.content_hash = calculate_hash(site[urls[i]].raw)]_vars

\* the run went past a failed URL and stored the one after it
C6_Witness ==
    /\ pc = "done"
    /\ run = "first"
    /\ "error" \in seen
    /\ last.msg = "added"
    /\ Len(urls) = 2
    /\ urls[1] # urls[2]

\* C7: after successful insert/update outcomes only, the ingredient rows of
\* every recipe are the ingredient list extracted from the version of the page
\* that was saved last (same multiset of name, quantity, unit), and every
\* ingredient row references an existing recipe row.
C7_IngredientsReplaced ==
    /\ \A g \in committed.ingredient : \E r \in committed.recipe : r.id = g.recipe_id
    /\ faults = 0 =>
          \A r \in committed.recipe :
              SameIngredients(IngredientRows(committed, r.id),
                              extract_ingredients(PageOfHash(r.content_hash)))

\* a recipe was updated to a version with another ingredient list
C7_Witness ==
    /\ faults = 0
    /\ last.msg = "updated"
    /\ \E r \in committed.recipe :
          /\ r.content_hash = calculate_hash(PageB.raw)
          /\ Cardinality(IngredientRows(committed, r.id)) = Len(PageB.ingr)


\* ------------------------------------------------------------------------
\* Properties of parse_quantity (SpecQty)
\* ------------------------------------------------------------------------
Cups == <<"c", "u", "p", "s">>

Tsp == <<"t", "s", "p">>

ToTaste == <<"t", "o", " ", "t", "a", "s", "t", "e">>

\* C8: the value is the number formed by the leading numeric part, a whole
\* number followed by a fraction 'a b/c' being a + b/c and a vulgar fraction
\* character its decimal, the unit is the rest: "2 1/2 cups" gives
\* (2.5, "cups"), "HALF tsp" (0.5, "tsp"), "to taste" (None, "to taste") and
\* "300 GHE" (300.0, "GHE").
C8_Examples ==
    qout # <<>> =>
        /\ qin = <<"2", " ", "1", "/", "2", " ">> \o Cups
              => qout[1] = [quantity |-> Rat(5, 2), unit |-> Cups]
        /\ qin = <<"HALF", " ">> \o Tsp
              => qout[1] = [quantity |-> Rat(1, 2), unit |-> Tsp]
        /\ qin = ToTaste
              => qout[1] = [quantity |-> <<>>, unit |-> ToTaste]
        /\ qin = <<"3", "0", "0", " ", "GHE">>
              => qout[1] = [quantity |-> Rat(300, 1), unit |-> <<"GHE">>]

\* ------------------------------------------------------------------------
\* Properties of DatabaseManager (SpecDB)
\* ------------------------------------------------------------------------
\* C9: every insert_category call returns the id of the categories row that
\* holds the given url, whether the call inserted the row or the row was
\* there already; there is never more than one categories row per url.
C9_ReturnsRowId ==
    /\ \A c, d \in dmCommitted.categories : c.url = d.url => c = d
    /\ dmCall.op = "insert_category" /\ dmCall.fault = "none"
          => \E c \in dmCommitted.categories :
                c.url = dmCall.url /\ dmCall.ret = <<c.id>>

\* C10: insert_recipe with a well-formed record on a healthy database commits
\* a recipes row for the url and returns its id, never None.
C10_RecipeStored ==
    dmCall.op = "insert_recipe"
        => /\ dmCall.ret # <<>>
           /\ \E r \in dmCommitted.recipes :
                 r.url = dmCall.url /\ dmCall.ret = <<r.id>>

====
